---- MODULE Spec2Model ----
(***************************************************************************)
(* PanosSkillet (src/skilletlib/skillet/panos.py): context initialisation  *)
(* (online / offline / supplied panoply), snippet stack materialisation    *)
(* (get_snippets) and snippet content resolution (load_element).           *)
(*                                                                         *)
(* Python dicts are functions from a finite set of keys to strings; an     *)
(* exception is an outcome of the call that raised it.                     *)
(***************************************************************************)
EXTENDS Integers, Sequences, FiniteSets, TLC

VARIABLES
    supplied,       \* whether __init__ was given a panoply object (never changes)
    panoply,        \* self.panoply
    calls,          \* number of initialize_context calls made on the instance
    last,           \* the last initialize_context call: its inputs and its result
    snippet_stack,  \* self.snippet_stack, the ordered list of snippet definitions
    snip            \* the last get_snippets or load_element call: the stack
                    \* it found and its result

vars == <<supplied, panoply, calls, last, snippet_stack, snip>>

ctxVars  == <<supplied, panoply, calls, last>>
snipVars == <<snippet_stack, snip>>

----------------------------------------------------------------------------
(* Bounds *)

\* initialize_context calls followed on one instance
MaxCalls == 3

\* longest snippet stack
MaxStack == 2

----------------------------------------------------------------------------
(* Dicts *)

\* d[k] = v, adding k when absent (Python: d[k] = v)
Put(d, k, v) == [x \in (DOMAIN d) \cup {k} |-> IF x = k THEN v ELSE d[x]]

\* d.get(k, default)
Get(d, k, default) == IF k \in DOMAIN d THEN d[k] ELSE default

\* the dict with no keys
EmptyDict == [x \in {} |-> ""]

----------------------------------------------------------------------------
(* The Panoply collaborator (skilletlib.panoply.Panoply)                   *)

\* self.panoply is None
None == [kind |-> "None"]

\* Panoply(hostname=..., api_username=..., api_password=..., api_port=...):
\* a live session
PanoplyOnline(hostname, username, password, port) ==
    [kind |-> "online", connected |-> TRUE, hostname |-> hostname,
     api_username |-> username, api_password |-> password, api_port |-> port]

\* Panoply(): the offline placeholder, no session
PanoplyOffline == [kind |-> "offline", connected |-> FALSE]

\* a panoply object built by the outer application and passed to __init__
PanoplyInjected(connected) == [kind |-> "injected", connected |-> connected]

\* the configuration documents a device can return from get_configuration()
DeviceConfigs == {"<config/>", "<running/>"}

----------------------------------------------------------------------------
(* initialize_context *)

online_required_fields == {"panos_hostname", "panos_username", "panos_password"}

offline_required_fields == {"config"}

ContextKeys == online_required_fields \cup offline_required_fields
                   \cup {"panos_port", "extra"}

\* the values a caller passes under each key
KeyValues(k) ==
    CASE k = "panos_hostname" -> {"fw.local", "fw2.local"}
      [] k = "panos_username" -> {"admin"}
      [] k = "panos_password" -> {"secret"}
      [] k = "panos_port"     -> {"8443"}
      [] k = "config"         -> {"<config><x/></config>", "<config/>"}
      [] OTHER                -> {"x"}

AllValues == UNION {KeyValues(k) : k \in ContextKeys}

\* every mapping a caller can pass as initial_context
Inputs ==
    UNION { {f \in [D -> AllValues] : \A k \in D : f[k] \in KeyValues(k)}
            : D \in SUBSET ContextKeys }

\* lines 60-61 as context = initial_context
NewContextAliased(initial_context) == [dict |-> initial_context, alias |-> TRUE]

\* lines 60-61: context = dict(); context.update(initial_context).
\* alias tells whether context is the caller's own dict object.
NewContext(initial_context) == [dict |-> initial_context, alias |-> FALSE]

\* lines 64-65 testing one online field instead of the whole set
MissingBothMutant(initial_context) ==
    /\ "panos_hostname" \notin DOMAIN initial_context
    /\ ~(offline_required_fields \subseteq DOMAIN initial_context)

\* lines 64-65: neither required field set is in the inputs
MissingBoth(initial_context) ==
    /\ ~(online_required_fields \subseteq DOMAIN initial_context)
    /\ ~(offline_required_fields \subseteq DOMAIN initial_context)

\* line 68 with offline mode winning when config is supplied too
OnlineModeMutant(initial_context) ==
    /\ online_required_fields \subseteq DOMAIN initial_context
    /\ ~(offline_required_fields \subseteq DOMAIN initial_context)

\* line 68: online mode is chosen
OnlineMode(initial_context) ==
    online_required_fields \subseteq DOMAIN initial_context

\* lines 69-74: the panoply object built from the online fields
NewOnlinePanoply(initial_context) ==
    PanoplyOnline(Get(initial_context, "panos_hostname", "None"),
                  Get(initial_context, "panos_username", "None"),
                  Get(initial_context, "panos_password", "None"),
                  Get(initial_context, "panos_port", "443"))

\* what a call leaves behind: how it ended, self.panoply, the content of the
\* context dict when the call ended, the object get_configuration() was
\* called on (None when it was not called), whether the context dict is the
\* caller's own object, and the content of the caller's mapping
Result(outcome, p, context, fetched_from, new_context, initial_context) ==
    [outcome      |-> outcome,
     panoply      |-> p,
     context      |-> context,
     fetched_from |-> fetched_from,
     alias        |-> new_context.alias,
     caller       |-> IF new_context.alias THEN context ELSE initial_context]

\* lines 83-86 with the connected test left out
SuppliedBranchMutant(self_panoply, new_context, initial_context, device_config) ==
    Result("ok", self_panoply, Put(new_context.dict, "config", device_config),
           self_panoply, new_context, initial_context)

\* lines 81-86: a panoply object is already held
SuppliedBranch(self_panoply, new_context, initial_context, device_config) ==
    IF self_panoply.connected
    THEN Result("ok", self_panoply,
                Put(new_context.dict, "config", device_config),
                self_panoply, new_context, initial_context)
    ELSE Result("SkilletLoaderException", self_panoply, new_context.dict,
                None, new_context, initial_context)

\* lines 77-80 with the configuration asked of the placeholder, which has none
OfflineBranchMutant(new_context, initial_context) ==
    Result("ok", PanoplyOffline, Put(new_context.dict, "config", ""),
           PanoplyOffline, new_context, initial_context)

\* lines 77-80: offline mode
OfflineBranch(new_context, initial_context) ==
    Result("ok", PanoplyOffline, new_context.dict, None, new_context,
           initial_context)

\* lines 68-76: online mode
OnlineBranch(new_context, initial_context, device_config) ==
    LET p == NewOnlinePanoply(initial_context) IN
    Result("ok", p, Put(new_context.dict, "config", device_config), p,
           new_context, initial_context)

\* lines 47-88: the body of initialize_context, device_config being what
\* get_configuration() answers if it is called
initialize_context(self_panoply, initial_context, device_config) ==
    LET context == NewContext(initial_context) IN
    IF self_panoply = None
    THEN IF MissingBoth(initial_context)
         THEN Result("SkilletValidationException", self_panoply, context.dict,
                     None, context, initial_context)
         ELSE IF OnlineMode(initial_context)
              THEN OnlineBranch(context, initial_context, device_config)
              ELSE OfflineBranch(context, initial_context)
    ELSE SuppliedBranch(self_panoply, context, initial_context, device_config)

\* what last holds: the call's inputs, self.panoply when it started, its
\* result, the document get_configuration() answered ("" when it was not
\* called) and the number of earlier calls on the instance
CallRecord(self_panoply, initial_context, device_config) ==
    LET r == initialize_context(self_panoply, initial_context, device_config) IN
    [op           |-> "initialize_context",
     pre_panoply  |-> self_panoply,
     inputs       |-> initial_context,
     outcome      |-> r.outcome,
     context      |-> IF r.outcome = "ok" THEN r.context ELSE EmptyDict,
     caller       |-> r.caller,
     alias        |-> r.alias,
     fetched_from |-> r.fetched_from,
     fetched      |-> IF r.fetched_from = None THEN "" ELSE device_config,
     earlier      |-> calls]

NoCall ==
    [op |-> "none", pre_panoply |-> None, inputs |-> EmptyDict, outcome |-> "none",
     context |-> EmptyDict, caller |-> EmptyDict, alias |-> FALSE, fetched_from |-> None,
     fetched |-> "", earlier |-> 0]

\* one call of initialize_context on the instance
InitializeContext ==
    /\ calls < MaxCalls
    /\ \E initial_context \in Inputs, device_config \in DeviceConfigs :
          LET r == initialize_context(panoply, initial_context, device_config) IN
          /\ panoply' = r.panoply
          /\ last' = CallRecord(panoply, initial_context, device_config)
    /\ calls' = calls + 1
    /\ UNCHANGED <<supplied, snipVars>>

\* lines 34-45: __init__, with or without a panoply object
CtxInit ==
    /\ supplied \in BOOLEAN
    /\ panoply \in IF supplied
                   THEN {PanoplyInjected(c) : c \in BOOLEAN}
                   ELSE {None}
    /\ calls = 0
    /\ last = NoCall

----------------------------------------------------------------------------
(* Snippet definitions and the files they name *)

\* self.path, the directory of the skillet
SnippetPath == "/skillet"

\* the files on disk, by directory and name, with their text
Disk ==
    [f \in {<<"/skillet", "a.xml">>, <<"/skillet", "empty.xml">>,
            <<"/other", "missing.xml">>}
       |-> IF f[2] = "a.xml" THEN "<a/>" ELSE IF f[2] = "empty.xml" THEN "" ELSE "<o/>"]

\* line 108: snippet_path.joinpath(file).resolve()
JoinPath(snippet_path, file) == <<snippet_path, file>>

\* line 109: snippet_file.exists()
Exists(snippet_file) == snippet_file \in DOMAIN Disk

CmdValues == {"set", "delete"}

ElementValues == {"", "<e/>"}

FileValues == {"a.xml", "empty.xml", "missing.xml"}

\* the name of the i-th snippet
SnippetName(i) == "s" \o ToString(i)

\* every snippet definition called name: cmd, element and file are optional
SnippetDefs(name) ==
    UNION { {d \in [D \cup {"name"} -> CmdValues \cup ElementValues \cup FileValues \cup {name}] :
               /\ d["name"] = name
               /\ "cmd" \in D => d["cmd"] \in CmdValues
               /\ "element" \in D => d["element"] \in ElementValues
               /\ "file" \in D => d["file"] \in FileValues}
            : D \in SUBSET {"cmd", "element", "file"} }

\* the stacks of snippets s1, s2, ... of length n
RECURSIVE StacksOfLen(_)
StacksOfLen(n) ==
    IF n = 0 THEN {<<>>}
    ELSE {Append(s, d) : s \in StacksOfLen(n - 1), d \in SnippetDefs(SnippetName(n))}

Stacks == UNION {StacksOfLen(n) : n \in 0..MaxStack}

----------------------------------------------------------------------------
(* load_element *)

\* line 104 without the test for an empty element
NeedsContentMutant(snippet_def) == "element" \notin DOMAIN snippet_def

\* line 104: the definition carries no content yet
NeedsContent(snippet_def) ==
    "element" \notin DOMAIN snippet_def \/ snippet_def["element"] = ""

\* lines 112-114 raising instead of logging
MissingFileMutant(snippet_def) ==
    [outcome |-> "SkilletLoaderException", def |-> snippet_def, logged |-> <<>>,
     error |-> snippet_def["name"]]

\* lines 112-114: the referenced file is not there
MissingFile(snippet_def) ==
    [outcome |-> "ok", def |-> snippet_def, logged |-> <<snippet_def["name"]>>,
     error |-> ""]

\* lines 105-107 logging instead of raising
NoFileKeyMutant(snippet_def) ==
    [outcome |-> "ok", def |-> snippet_def, logged |-> <<snippet_def["name"]>>,
     error |-> ""]

\* lines 105-107: no file key
NoFileKey(snippet_def) ==
    [outcome |-> "SkilletLoaderException", def |-> snippet_def, logged |-> <<>>,
     error |-> snippet_def["name"]]

\* lines 110-111: the file's text becomes the element
ReadFile(snippet_def, snippet_file) ==
    [outcome |-> "ok", def |-> Put(snippet_def, "element", Disk[snippet_file]),
     logged |-> <<>>, error |-> ""]

\* lines 103-116: how the call ended, the dict it leaves (the one it was
\* given, changed in place), the snippet names it logged an error for and
\* the snippet its exception names
load_element(snippet_def, snippet_path) ==
    IF NeedsContent(snippet_def)
    THEN IF "file" \notin DOMAIN snippet_def
         THEN NoFileKey(snippet_def)
         ELSE LET snippet_file == JoinPath(snippet_path, snippet_def["file"]) IN
              IF Exists(snippet_file)
              THEN ReadFile(snippet_def, snippet_file)
              ELSE MissingFile(snippet_def)
    ELSE [outcome |-> "ok", def |-> snippet_def, logged |-> <<>>, error |-> ""]

----------------------------------------------------------------------------
(* get_snippets *)

\* PanosSnippet(snippet_def, self.panoply)
PanosSnippet(snippet_def, p) == [metadata |-> snippet_def, panoply |-> p]

\* line 94: the definition goes through load_element
Resolves(snippet_def) ==
    "cmd" \notin DOMAIN snippet_def \/ snippet_def["cmd"] = "set"

\* line 98 putting the new snippet first
AppendSnippetMutant(snippet_list, snippet) == <<snippet>> \o snippet_list

\* line 98: snippet_list.append(snippet)
AppendSnippet(snippet_list, snippet) == Append(snippet_list, snippet)

\* lines 93-100: the loop from the i-th definition on; stack is
\* self.snippet_stack, whose dicts load_element changes in place
RECURSIVE get_snippets_from(_, _, _, _, _)
get_snippets_from(i, stack, snippet_list, logged, p) ==
    IF i > Len(stack)
    THEN [outcome |-> "ok", stack |-> stack, snippet_list |-> snippet_list,
          logged |-> logged, error |-> ""]
    ELSE IF Resolves(stack[i])
         THEN LET r == load_element(stack[i], SnippetPath) IN
              IF r.outcome = "ok"
              THEN get_snippets_from(i + 1, [stack EXCEPT ![i] = r.def],
                                     AppendSnippet(snippet_list, PanosSnippet(r.def, p)),
                                     logged \o r.logged, p)
              ELSE [outcome |-> r.outcome, stack |-> stack, snippet_list |-> <<>>,
                    logged |-> logged, error |-> r.error]
         ELSE get_snippets_from(i + 1, stack,
                                AppendSnippet(snippet_list, PanosSnippet(stack[i], p)),
                                logged, p)

\* lines 90-100
get_snippets(stack, p) == get_snippets_from(1, stack, <<>>, <<>>, p)

\* what snip holds: the operation, the stack it found, the index of the
\* definition handed to load_element (0 for get_snippets), how the call
\* ended, the list or the dict it returned, the snippet names it logged an
\* error for and the snippet its exception names
SnipRecord(op, given, index, outcome, returned, returned_def, logged, error) ==
    [op |-> op, given |-> given, index |-> index, outcome |-> outcome,
     returned |-> returned, returned_def |-> returned_def, logged |-> logged,
     error |-> error]

NoSnippets == SnipRecord("none", <<>>, 0, "none", <<>>, EmptyDict, <<>>, "")

\* one call of get_snippets on the instance
GetSnippets ==
    /\ LET r == get_snippets(snippet_stack, panoply) IN
       /\ snippet_stack' = r.stack
       /\ snip' = SnipRecord("get_snippets", snippet_stack, 0, r.outcome,
                             r.snippet_list, EmptyDict, r.logged, r.error)
    /\ UNCHANGED ctxVars

\* a direct call of the static method load_element on the i-th definition
\* of the stack
LoadElement ==
    /\ \E i \in 1..Len(snippet_stack) :
          LET r == load_element(snippet_stack[i], SnippetPath) IN
          /\ snippet_stack' = [snippet_stack EXCEPT ![i] = r.def]
          /\ snip' = SnipRecord("load_element", snippet_stack, i, r.outcome, <<>>,
                                IF r.outcome = "ok" THEN r.def ELSE EmptyDict,
                                r.logged, r.error)
    /\ UNCHANGED ctxVars

----------------------------------------------------------------------------
(* Specification of context initialisation *)

Next == InitializeContext

Init ==
    /\ CtxInit
    /\ snippet_stack = <<>>
    /\ snip = NoSnippets

Spec == Init /\ [][Next]_vars

----------------------------------------------------------------------------
(* Specification of materialisation and content resolution *)

SnippetNext == GetSnippets \/ LoadElement

\* a skillet constructed with any snippet stack
SnippetInit ==
    /\ CtxInit
    /\ snippet_stack \in Stacks
    /\ snip = NoSnippets

SnippetSpec == SnippetInit /\ [][SnippetNext]_vars

----------------------------------------------------------------------------
(* Properties of initialize_context, checked under Spec *)

HasOnlineSet(m) == {"panos_hostname", "panos_username", "panos_password"} \subseteq DOMAIN m

HasConfig(m) == "config" \in DOMAIN m

Called == last.op = "initialize_context"

\* C1: a call that starts with no panoply object held and whose inputs hold
\* hostname, username and password, with or without config, builds an online
\* panoply from those fields (port 443 unless given), calls
\* get_configuration() on it and returns a context whose config is the
\* fetched document; inputs with config alone succeed as well.
C1_OnlinePriority ==
    (Called /\ last.pre_panoply = None) =>
        /\ HasOnlineSet(last.inputs) =>
              /\ last.outcome = "ok"
              /\ panoply = PanoplyOnline(last.inputs["panos_hostname"],
                                         last.inputs["panos_username"],
                                         last.inputs["panos_password"],
                                         IF "panos_port" \in DOMAIN last.inputs
                                         THEN last.inputs["panos_port"] ELSE "443")
              /\ last.fetched_from = panoply
              /\ last.fetched \in DeviceConfigs
              /\ last.context["config"] = last.fetched
        /\ (HasConfig(last.inputs) /\ ~HasOnlineSet(last.inputs)) =>
              last.outcome = "ok"

\* online fields and config supplied together, the device answering another
\* document than the one supplied
C1_Witness ==
    /\ Called /\ last.pre_panoply = None
    /\ HasOnlineSet(last.inputs) /\ HasConfig(last.inputs)
    /\ last.outcome = "ok"
    /\ last.fetched # last.inputs["config"]
    /\ last.context["config"] = last.fetched

\* C2: a call that starts with no panoply object held and whose inputs lack
\* an online field and lack config raises SkilletValidationException, leaves
\* self.panoply unset and calls get_configuration() on nothing.
C2_MissingBothFails ==
    (Called /\ last.pre_panoply = None
       /\ ~HasOnlineSet(last.inputs) /\ ~HasConfig(last.inputs)) =>
        /\ last.outcome = "SkilletValidationException"
        /\ panoply = None
        /\ last.fetched_from = None

\* hostname given, username missing, no config
C2_Witness ==
    /\ Called /\ last.pre_panoply = None
    /\ "panos_hostname" \in DOMAIN last.inputs
    /\ "panos_username" \notin DOMAIN last.inputs
    /\ ~HasConfig(last.inputs)
    /\ last.outcome = "SkilletValidationException"

\* C3: with a panoply object passed to __init__ that is not connected, every
\* call raises SkilletLoaderException, whatever the inputs, and
\* get_configuration() is not called.
C3_DisconnectedFails ==
    (Called /\ supplied /\ ~last.pre_panoply.connected) =>
        /\ last.outcome = "SkilletLoaderException"
        /\ last.fetched_from = None
        /\ panoply = last.pre_panoply

\* a disconnected panoply and inputs that satisfy both field sets
C3_Witness ==
    /\ Called /\ supplied /\ ~last.pre_panoply.connected
    /\ HasOnlineSet(last.inputs) /\ HasConfig(last.inputs)
    /\ last.outcome = "SkilletLoaderException"

\* C4: a call that starts with no panoply object held and whose inputs hold
\* config but not all online fields builds the offline placeholder, calls
\* get_configuration() on nothing and returns the supplied config unchanged.
C4_OfflineKeepsConfig ==
    (Called /\ last.pre_panoply = None
       /\ HasConfig(last.inputs) /\ ~HasOnlineSet(last.inputs)) =>
        /\ last.outcome = "ok"
        /\ panoply = PanoplyOffline
        /\ last.fetched_from = None
        /\ last.context["config"] = last.inputs["config"]

\* config with two of the three online fields
C4_Witness ==
    /\ Called /\ last.pre_panoply = None
    /\ HasConfig(last.inputs) /\ ~HasOnlineSet(last.inputs)
    /\ {"panos_hostname", "panos_username"} \subseteq DOMAIN last.inputs
    /\ last.outcome = "ok"
    /\ panoply = PanoplyOffline

\* C9: after every call the caller's mapping is what it was before the call,
\* and a returned context is another mapping that holds every input key,
\* with the input's value for every key but config, and no key besides the
\* inputs' and config.
C9_InputsNotMutated ==
    Called =>
        /\ last.caller = last.inputs
        /\ last.outcome = "ok" =>
              /\ ~last.alias
              /\ DOMAIN last.inputs \subseteq DOMAIN last.context
              /\ DOMAIN last.context \subseteq DOMAIN last.inputs \cup {"config"}
              /\ \A k \in DOMAIN last.inputs \ {"config"} :
                    last.context[k] = last.inputs[k]

\* an online call whose inputs carry an unrecognized key and a config the
\* fetched document replaces in the returned context
C9_Witness ==
    /\ Called /\ last.outcome = "ok"
    /\ "extra" \in DOMAIN last.inputs
    /\ HasConfig(last.inputs)
    /\ last.context["config"] # last.inputs["config"]
    /\ last.context["extra"] = last.inputs["extra"]
    /\ last.caller = last.inputs

\* C10: on an instance constructed without a panoply object, every call,
\* whatever calls came before it, with config and without the online fields
\* returns config unchanged without a get_configuration() call, and every
\* call lacking both field sets raises SkilletValidationException.
C10_HistoryIndependent ==
    (Called /\ ~supplied) =>
        /\ (HasConfig(last.inputs) /\ ~HasOnlineSet(last.inputs)) =>
              /\ last.outcome = "ok"
              /\ last.fetched_from = None
              /\ last.context["config"] = last.inputs["config"]
        /\ (~HasConfig(last.inputs) /\ ~HasOnlineSet(last.inputs)) =>
              last.outcome = "SkilletValidationException"

----------------------------------------------------------------------------
(* Properties of get_snippets and load_element, checked under SnippetSpec *)

SetOrNoCmd(d) == "cmd" \notin DOMAIN d \/ d["cmd"] = "set"

LacksContent(d) == "element" \notin DOMAIN d \/ d["element"] = ""

FileMissing(d) ==
    "file" \in DOMAIN d /\ <<SnippetPath, d["file"]>> \notin DOMAIN Disk

FileEmpty(d) ==
    /\ "file" \in DOMAIN d
    /\ <<SnippetPath, d["file"]>> \in DOMAIN Disk
    /\ Disk[<<SnippetPath, d["file"]>>] = ""

\* get_snippets hands it to load_element, which finds no file on disk
SoftFails(d) == SetOrNoCmd(d) /\ LacksContent(d) /\ FileMissing(d)

\* get_snippets hands it to load_element, which finds no file key
HardFails(d) == SetOrNoCmd(d) /\ LacksContent(d) /\ "file" \notin DOMAIN d

\* m is d, but for an element that resolution may have set
BuiltFrom(m, d) ==
    /\ DOMAIN d \subseteq DOMAIN m
    /\ DOMAIN m \subseteq DOMAIN d \cup {"element"}
    /\ \A k \in DOMAIN d \ {"element"} : m[k] = d[k]

Logged(name) == \E j \in 1..Len(snip.logged) : snip.logged[j] = name

Materialized == snip.op = "get_snippets"

Resolved == snip.op = "load_element"

\* C5: a list that get_snippets returns has one snippet per definition of the
\* stack, the i-th built from the i-th definition and bound to self.panoply,
\* and get_snippets returns such a list for every stack in which no
\* definition lacks both content and a file key, whichever definitions name
\* a file that is missing.
C5_OrderPreserved ==
    Materialized =>
        /\ snip.outcome = "ok" =>
              /\ Len(snip.returned) = Len(snip.given)
              /\ \A i \in 1..Len(snip.given) :
                    /\ BuiltFrom(snip.returned[i].metadata, snip.given[i])
                    /\ snip.returned[i].panoply = panoply
        /\ (\A i \in 1..Len(snip.given) : ~HardFails(snip.given[i])) =>
              snip.outcome = "ok"

\* a stack of two whose first definition names a missing file
C5_Witness ==
    /\ Materialized /\ snip.outcome = "ok"
    /\ Len(snip.given) = 2 /\ Len(snip.returned) = 2
    /\ SoftFails(snip.given[1])
    /\ snip.returned[1].metadata["name"] = SnippetName(1)
    /\ snip.returned[2].metadata["name"] = SnippetName(2)

\* C6: load_element on a definition that lacks content and names a file that
\* does not exist returns the definition as it was given, element still
\* lacking, and logs the snippet's name; get_snippets on a stack with such
\* definitions and none without a file key returns its list, the snippet of
\* each such definition carrying the definition unchanged.
C6_MissingFileSoft ==
    /\ (Resolved /\ LacksContent(snip.given[snip.index])
                 /\ FileMissing(snip.given[snip.index])) =>
          /\ snip.outcome = "ok"
          /\ snip.returned_def = snip.given[snip.index]
          /\ snip.logged = <<snip.given[snip.index]["name"]>>
          /\ snippet_stack = snip.given
    /\ (Materialized /\ \A i \in 1..Len(snip.given) : ~HardFails(snip.given[i])) =>
          /\ snip.outcome = "ok"
          /\ \A i \in 1..Len(snip.given) :
                SoftFails(snip.given[i]) =>
                    /\ snip.returned[i].metadata = snip.given[i]
                    /\ Logged(snip.given[i]["name"])

\* a stack whose first definition has no element and names a missing file
C6_Witness ==
    /\ Materialized /\ snip.outcome = "ok"
    /\ Len(snip.given) = 2
    /\ SoftFails(snip.given[1])
    /\ "element" \notin DOMAIN snip.given[1]
    /\ "element" \notin DOMAIN snip.returned[1].metadata
    /\ Logged(SnippetName(1))

NonEmptyElement(d) == "element" \in DOMAIN d /\ d["element"] # ""

\* C7 as stated: every definition with cmd "set" or no cmd that resolution
\* returns has a non-empty element, or resolution logged its missing file.
C7_ElementOrLogged ==
    /\ (Resolved /\ snip.outcome = "ok" /\ SetOrNoCmd(snip.returned_def)) =>
          \/ NonEmptyElement(snip.returned_def)
          \/ Logged(snip.returned_def["name"])
    /\ (Materialized /\ snip.outcome = "ok") =>
          \A i \in 1..Len(snip.returned) :
              SetOrNoCmd(snip.returned[i].metadata) =>
                  \/ NonEmptyElement(snip.returned[i].metadata)
                  \/ Logged(snip.returned[i].metadata["name"])

\* the file's text became the element and it is the empty string
EmptyFileRead(d) == FileEmpty(d) /\ "element" \in DOMAIN d /\ d["element"] = ""

\* C7 as amended: every definition with cmd "set" or no cmd that resolution
\* returns has a non-empty element, or resolution logged its missing file, or
\* its file exists and is empty and its element is that empty text.
C7_ElementOrLoggedOrEmptyFile ==
    /\ (Resolved /\ snip.outcome = "ok" /\ SetOrNoCmd(snip.returned_def)) =>
          \/ NonEmptyElement(snip.returned_def)
          \/ Logged(snip.returned_def["name"])
          \/ EmptyFileRead(snip.returned_def)
    /\ (Materialized /\ snip.outcome = "ok") =>
          \A i \in 1..Len(snip.returned) :
              SetOrNoCmd(snip.returned[i].metadata) =>
                  \/ NonEmptyElement(snip.returned[i].metadata)
                  \/ Logged(snip.returned[i].metadata["name"])
                  \/ EmptyFileRead(snip.returned[i].metadata)

\* a stack resolved with one element read from a file, one file missing
C7_Witness ==
    /\ Materialized /\ snip.outcome = "ok"
    /\ Len(snip.given) = 2
    /\ SoftFails(snip.given[1])
    /\ Logged(SnippetName(1))
    /\ LacksContent(snip.given[2]) /\ SetOrNoCmd(snip.given[2])
    /\ NonEmptyElement(snip.returned[2].metadata)

\* C8: load_element on a definition with cmd "set" or no cmd that lacks
\* content and has no file key raises SkilletLoaderException naming the
\* snippet, and get_snippets on a stack holding such a definition raises that
\* exception, naming the first such snippet, and returns no list.
C8_NoFileKeyHardFails ==
    /\ (Resolved /\ HardFails(snip.given[snip.index])) =>
          /\ snip.outcome = "SkilletLoaderException"
          /\ snip.error = snip.given[snip.index]["name"]
          /\ snip.logged = <<>>
    /\ (Materialized /\ \E i \in 1..Len(snip.given) : HardFails(snip.given[i])) =>
          /\ snip.outcome = "SkilletLoaderException"
          /\ snip.returned = <<>>
          /\ \E i \in 1..Len(snip.given) :
                /\ HardFails(snip.given[i])
                /\ \A j \in 1..(i - 1) : ~HardFails(snip.given[j])
                /\ snip.error = snip.given[i]["name"]

\* a stack whose first definition names a missing file and whose second has
\* neither content nor a file key
C8_Witness ==
    /\ Materialized
    /\ Len(snip.given) = 2
    /\ SoftFails(snip.given[1])
    /\ HardFails(snip.given[2])
    /\ snip.outcome = "SkilletLoaderException"
    /\ snip.error = SnippetName(2)

====
